---- MODULE Spec2Model ----
(***************************************************************************)
(* Download-and-cache resolution engine of the hub client.                 *)
(*                                                                         *)
(* The model follows src/hub/file_download.go (fileDownload,               *)
(* downloadToTmpAndMove, HttpGet, createSymlink) and                        *)
(* src/hub/snapshot_download.go (snapshotDownload).  One repository cache  *)
(* is modelled: blobs/<etag>, blobs/<etag>.incomplete,                      *)
(* snapshots/<commit>/<file> and refs/<revision>.  Files are inodes, so    *)
(* that a descriptor opened on the .incomplete path keeps writing to the   *)
(* same file after a rename or an unlink, as the operating system does.    *)
(* One unit of length is one chunk read from the response body.            *)
(***************************************************************************)
EXTENDS Integers, Sequences, FiniteSets, TLC

\* ------------------------------------------------------------- bounds
NProc == 2        \* top-level callers of FileDownload that may run concurrently
MaxCalls == 2     \* calls each caller makes
FileSize == 2     \* size of every remote file, in chunks
MaxLen == 4       \* length of the strings given to the string functions

\* ------------------------------------------------------------- constants
DefaultRetries == 5   \* nbRetries given to HttpGet, and its value after a chunk
\* requestWrapper sends with "client := &http.Client{}": with no CheckRedirect
\* the client of net/http stops after 10 consecutive requests.
MaxRedirects == 10

\* ------------------------------------------------------------- universe
Files == {"a", "b"}
Siblings == <<"a", "b">>
ETags == {"e1", "e2"}
Commits == {"c1"}
DefaultRevision == "main"
Revisions == {DefaultRevision} \cup Commits
NoPath == <<>>

\* Behaviours of the environment (network, filesystem, process termination)
\* that a run may show.
AllFaults ==
  {"head", "offline", "get", "read", "eofdata", "probe", "symlink", "rename", "kill"}

Callers == 1..NProc
GoIds == (NProc + 1)..(NProc + Len(Siblings))
Tasks == Callers \cup GoIds
\* The pointer paths: snapshots/<commit>/<file>, and snapshots/<file> for the
\* empty commit hash, which filepath.Join leaves out of the path.
NoCommit == ""
PtrKeys == (Commits \cup {NoCommit}) \X Files
Inodes == 1..(2 * Cardinality(ETags) + Cardinality(PtrKeys) + Cardinality(Tasks))
\* The content of a ref file that exists and is empty ("" is the absent file).
EmptyRef == "<empty>"

VARIABLES
  srvETag,      \* the server: file -> ETag of its content
  faults,       \* environment behaviours possible in this run
  quota,        \* task -> the number of calls it makes in this run
  ino,          \* inode -> content (sequence of <<etag, position>> chunks)
  incomplete,   \* etag -> inode at blobs/<etag>.incomplete, 0 when absent
  blob,         \* etag -> inode at blobs/<etag>, 0 when absent
  ptr,          \* <<commit, file>> -> what is at snapshots/<commit>/<file>
  refs,         \* revision -> content of refs/<revision>, "" when absent,
                \*   EmptyRef when the file is there with no content
  tk,           \* task -> the locals of its fileDownload call
  snap,         \* the snapshotDownload call
  wg,           \* counter of snapshotDownload's sync.WaitGroup
  snapDir,      \* commit -> whether the directory snapshots/<commit> exists
  symlinkSupported, \* the process-wide memo of IsSymlinkSupported for the cache
  noExist,      \* the <<commit, file>> with a marker .no_exist/<commit>/<file>
  rq,           \* the requestWrapper call
  fn            \* a call of a function of the package: its input and its result

vars == <<srvETag, faults, quota, ino, incomplete, blob, ptr, refs, tk, snap, wg,
          snapDir, symlinkSupported, noExist, rq, fn>>

\* ------------------------------------------------------------- pure helpers
\* regexp CommitHashPattern "^[0-9a-f]{40}$"
IsCommitHash(r) == r \in Commits

\* The commit the server resolves every revision of the repository to.
SrvCommit == "c1"

\* The content the server holds for an ETag.
Content(e) == [i \in 1..FileSize |-> <<e, i>>]

NoPtr == [kind |-> "none", etag |-> "", ino |-> 0]
LinkPtr(e) == [kind |-> "link", etag |-> e, ino |-> 0]
FilePtr(i) == [kind |-> "file", etag |-> "", ino |-> i]

\* os.Stat(pointerPath): follows a symbolic link, so a dangling link is ErrNotExist.
PointerExists(k) ==
  \/ ptr[k].kind = "file"
  \/ ptr[k].kind = "link" /\ blob[ptr[k].etag] # 0

\* What a reader of the pointer path gets, in a filesystem given by its
\* pointers, blobs and inodes.
ContentAt(pt, bl, io, k) ==
  IF pt[k].kind = "file" THEN io[pt[k].ino]
  ELSE IF pt[k].kind = "link" /\ bl[pt[k].etag] # 0 THEN io[bl[pt[k].etag]]
  ELSE <<>>

PointerContent(k) == ContentAt(ptr, blob, ino, k)

\* os.Stat(blobPath)
BlobExists(e) == blob[e] # 0

CacheHitWrong(exists, force) == exists /\ force
\* "err == nil && !forceDownload"
CacheHit(exists, force) == exists /\ ~force

Min(S) == CHOOSE x \in S : \A y \in S : x <= y

\* The inodes that a path or an open descriptor refers to.
Live(inc, bl, pt, t) ==
  {inc[e] : e \in ETags} \cup {bl[e] : e \in ETags}
    \cup {pt[k].ino : k \in PtrKeys} \cup {t[p].fd : p \in Tasks}

FreshIno == Min(Inodes \ Live(incomplete, blob, ptr, tk))

\* The next inode table: `c` restricted to the inodes still referred to.
SetIno(c) ==
  ino' = [i \in Inodes |->
            IF i \in Live(incomplete', blob', ptr', tk') THEN c[i] ELSE <<>>]

\* ------------------------------------------------------------- task records
NoPrev == [valid |-> FALSE, file |-> "", rev |-> "", force |-> FALSE,
           path |-> NoPath, err |-> FALSE, gets |-> 0]

IdleTask == [pc |-> "off", file |-> "", rev |-> "", force |-> FALSE,
             commit |-> "", etag |-> "", fd |-> 0, resume |-> 0, written |-> 0,
             newBlob |-> FALSE, head |-> "none", xfer |-> "none", gets |-> 0,
             path |-> NoPath, err |-> FALSE, calls |-> 0, prev |-> NoPrev,
             local |-> FALSE, retries |-> 0, range |-> <<>>,
             token |-> FALSE, resp |-> "none", api |-> "none", loc |-> "none",
             hdrs |-> {}, size |-> 0, disk |-> "none", clen |-> 0]

\* A return of fileDownload: the result is kept, the locals go.
Returned(t, path, err) ==
  [t EXCEPT !.pc = "ret", !.path = path, !.err = err,
            !.commit = "", !.etag = "", !.fd = 0, !.resume = 0, !.written = 0,
            !.newBlob = FALSE, !.retries = 0, !.range = <<>>,
            !.hdrs = {}, !.size = 0, !.clen = 0]

FsUnchanged == UNCHANGED <<ino, incomplete, blob, ptr, refs, snapDir, noExist>>
EnvUnchanged == UNCHANGED <<srvETag, faults, quota, snap, wg, rq, fn>>
MemoUnchanged == UNCHANGED symlinkSupported

\* ------------------------------------------------------------- fileDownload
\* HFClient.FileDownload: a caller starts a call.
Call(p, f, r, force) ==
  /\ p \in Callers
  /\ tk[p].pc \in {"idle", "ret"}
  /\ tk[p].calls < quota[p]
  /\ tk' = [tk EXCEPT ![p] =
       [IdleTask EXCEPT !.pc = "fast", !.file = f, !.rev = r, !.force = force,
          !.calls = tk[p].calls + 1,
          !.prev = IF tk[p].pc = "ret"
                   THEN [valid |-> TRUE, file |-> tk[p].file, rev |-> tk[p].rev,
                         force |-> tk[p].force, path |-> tk[p].path,
                         err |-> tk[p].err, gets |-> tk[p].gets]
                   ELSE NoPrev]]
  /\ FsUnchanged /\ EnvUnchanged /\ MemoUnchanged

\* HFClient.FileDownload with localFilesOnly set.
CallLocal(p, f, r, force) ==
  /\ p \in Callers
  /\ tk[p].pc \in {"idle", "ret"}
  /\ tk[p].calls < quota[p]
  /\ tk' = [tk EXCEPT ![p] =
       [IdleTask EXCEPT !.pc = "fast", !.file = f, !.rev = r, !.force = force,
          !.local = TRUE, !.calls = tk[p].calls + 1]]
  /\ FsUnchanged /\ EnvUnchanged /\ MemoUnchanged

\* HFClient.FileDownload of a client that was given a token (WithToken).
CallToken(p, f, r, force) ==
  /\ p \in Callers
  /\ tk[p].pc \in {"idle", "ret"}
  /\ tk[p].calls < quota[p]
  /\ tk' = [tk EXCEPT ![p] =
       [IdleTask EXCEPT !.pc = "fast", !.file = f, !.rev = r, !.force = force,
          !.token = TRUE, !.calls = tk[p].calls + 1]]
  /\ FsUnchanged /\ EnvUnchanged /\ MemoUnchanged

\* Lines 550-561: the fast path of a commit-hash revision.
Fast(p) ==
  /\ tk[p].pc = "fast"
  /\ LET t == tk[p]
         k == <<t.rev, t.file>>
     IN tk' = [tk EXCEPT ![p] =
          IF ~IsCommitHash(t.rev) THEN [t EXCEPT !.pc = "meta"]
          ELSE IF CacheHit(PointerExists(k), t.force) THEN Returned(t, k, FALSE)
          \* err == nil and forceDownload: !errors.Is(nil, ErrNotExist) holds
          ELSE IF PointerExists(k) THEN Returned(t, NoPath, FALSE)
          ELSE [t EXCEPT !.pc = "meta"]]
  /\ FsUnchanged /\ EnvUnchanged /\ MemoUnchanged

\* Line 563: the headers of the call.  client.Token is read nowhere.
InitialHeaders == {"User-Agent"}

\* What the HEAD of getFileMetadata (703-745) gives.  No status code is read.
\*   "fail": requestWrapper returns an error, or no size header is a number;
\*   "full": X-Repo-Commit, an ETag and a size greater than zero;
\*   "nocommit", "noetag", "nosize": a response without X-Repo-Commit, without
\*       ETag and X-Linked-Etag, or with a size of 0;
\*   "notfound": status 404 with X-Repo-Commit, and no ETag;
\*   "badcommit": an X-Repo-Commit that does not match CommitHashPattern.
\* A call with localFilesOnly is not tested at line 626 and would go on with an
\* empty ETag; it is given no response without ETag here.
HeadAnswers(t) ==
  {"full"}
    \cup (IF "head" \in faults THEN {"fail"} ELSE {})
    \cup (IF "meta" \in faults THEN {"nocommit", "nosize"} ELSE {})
    \cup (IF "meta" \in faults /\ ~t.local THEN {"noetag", "notfound"} ELSE {})
    \cup (IF "commit" \in faults THEN {"badcommit"} ELSE {})

\* Lines 579-596: the GET of api/models/<repoId> made when the HEAD gave no
\* commit hash; its "sha" is the commit hash.
ApiAnswers(resp) ==
  IF resp # "nocommit" THEN {"none"}
  ELSE {"ok"} \cup (IF "head" \in faults THEN {"fail"} ELSE {})

\* Lines 606-623: the host of fileMetadata.Location (the Location header, or
\* the URL of the last request) against the host of hfUrl.
LocationHosts(resp) ==
  IF resp = "fail" THEN {"none"}
  ELSE {"same"} \cup (IF "lfs" \in faults THEN {"other"} ELSE {})

\* Lines 563-648: the metadata HEAD and the commit hash it gives.
\*   575-577: no metadata is an error;
\*   579-596: a missing commit hash is asked of api/models;
\*   598-604: a missing ETag and a size of 0 are printed;
\*   606-623: "authorization" is deleted from the headers when the host of the
\*            location is not the host of hfUrl;
\*   626-628: a missing ETag is an error;
\*   629-648: a commit hash that does not match the pattern is replaced by the
\*            content of refs/<revision>, and the err tested at line 644 is
\*            the one of os.Stat: nil when the ref is there, so that the call
\*            returns "" with it; with no ref the commit hash stays empty.
Meta(p) ==
  /\ tk[p].pc = "meta"
  /\ \E resp \in HeadAnswers(tk[p]) :
     \E api \in ApiAnswers(resp), host \in LocationHosts(resp) :
       LET t == tk[p]
           sent == [t EXCEPT !.head = IF resp = "fail" THEN "fail" ELSE "ok",
                             !.resp = resp,
                             !.hdrs = InitialHeaders \cup {"Accept-Encoding"}]
           asked == [sent EXCEPT !.api = api]
           got == [asked EXCEPT !.loc = host,
                     !.hdrs = IF host = "other" THEN @ \ {"authorization"} ELSE @]
       IN tk' = [tk EXCEPT ![p] =
            IF resp = "fail" THEN Returned(sent, NoPath, TRUE)
            ELSE IF api = "fail" THEN Returned(asked, NoPath, TRUE)
            ELSE IF resp \in {"noetag", "notfound"} THEN Returned(got, NoPath, TRUE)
            ELSE IF resp = "badcommit" /\ refs[t.rev] # ""
              THEN Returned(got, NoPath, FALSE)
            ELSE [got EXCEPT !.pc = "ptr1",
                             !.commit = IF resp = "badcommit" THEN NoCommit ELSE SrvCommit,
                             !.etag = srvETag[t.file],
                             !.size = IF resp = "nosize" THEN 0 ELSE FileSize]]
  /\ FsUnchanged /\ EnvUnchanged /\ MemoUnchanged

\* Lines 650-660.
Ptr1(p) ==
  /\ tk[p].pc = "ptr1"
  /\ LET t == tk[p]
         k == <<t.commit, t.file>>
     IN tk' = [tk EXCEPT ![p] =
          IF t.commit # NoCommit /\ CacheHit(PointerExists(k), t.force)
          THEN Returned(t, k, FALSE)
          ELSE [t EXCEPT !.pc = "mkref"]]
  /\ FsUnchanged /\ EnvUnchanged /\ MemoUnchanged

\* os.WriteFile(refPath, []byte(commitHash)): the file is there afterwards,
\* with no content for the empty commit hash.
RefContent(commitHash) == IF commitHash = "" THEN EmptyRef ELSE commitHash

\* Lines 662-668 and cacheCommitHashForSpecificRevision (492-521): the
\* directories of the blob and of the pointer are made, the ref is written.
MkRef(p) ==
  /\ tk[p].pc = "mkref"
  /\ refs' = IF tk[p].rev # tk[p].commit
             THEN [refs EXCEPT ![tk[p].rev] = RefContent(tk[p].commit)]
             ELSE refs
  /\ snapDir' = IF tk[p].commit = NoCommit THEN snapDir
                ELSE [snapDir EXCEPT ![tk[p].commit] = TRUE]
  /\ tk' = [tk EXCEPT ![p].pc = IF tk[p].force THEN "dlstat" ELSE "ptr2"]
  /\ UNCHANGED <<ino, incomplete, blob, ptr, noExist>> /\ EnvUnchanged /\ MemoUnchanged

\* Lines 670-677.
Ptr2(p) ==
  /\ tk[p].pc = "ptr2"
  /\ LET t == tk[p]
         k == <<t.commit, t.file>>
     IN tk' = [tk EXCEPT ![p] =
          IF PointerExists(k) THEN Returned(t, k, FALSE)
          ELSE [t EXCEPT !.pc = "blobstat"]]
  /\ FsUnchanged /\ EnvUnchanged /\ MemoUnchanged

\* Lines 679-687: the blob is there, only the pointer is missing.
BlobStat(p) ==
  /\ tk[p].pc = "blobstat"
  /\ tk' = [tk EXCEPT ![p] =
       IF BlobExists(tk[p].etag)
       THEN [tk[p] EXCEPT !.pc = "link", !.newBlob = FALSE]
       ELSE [tk[p] EXCEPT !.pc = "dlstat"]]
  /\ FsUnchanged /\ EnvUnchanged /\ MemoUnchanged

\* downloadToTmpAndMove, lines 290-293.
DlStat(p) ==
  /\ tk[p].pc = "dlstat"
  /\ tk' = [tk EXCEPT ![p] =
       IF CacheHit(BlobExists(tk[p].etag), tk[p].force)
       THEN [tk[p] EXCEPT !.pc = "link", !.newBlob = TRUE]
       ELSE [tk[p] EXCEPT !.pc = "dlinc"]]
  /\ FsUnchanged /\ EnvUnchanged /\ MemoUnchanged

DlIncKeep(p) ==
  /\ tk[p].pc = "dlinc"
  /\ tk' = [tk EXCEPT ![p].pc = "dlopen"]
  /\ FsUnchanged /\ EnvUnchanged /\ MemoUnchanged

\* downloadToTmpAndMove, lines 295-320: a forced download removes the stale
\* .incomplete file.
DlInc(p) ==
  /\ tk[p].pc = "dlinc"
  /\ incomplete' = IF tk[p].force THEN [incomplete EXCEPT ![tk[p].etag] = 0]
                   ELSE incomplete
  /\ tk' = [tk EXCEPT ![p].pc = "dlopen"]
  /\ UNCHANGED <<blob, ptr, refs, snapDir, noExist>>
  /\ SetIno(ino)
  /\ EnvUnchanged /\ MemoUnchanged

\* Lines 339-343 with checkDiskSpace (385-406): called for both paths when the
\* expected size is not 0; it compares the Size() of the directories with the
\* expected size.  "low" is checkDiskSpace returning its error.
DiskChecks(size) ==
  IF size = 0 THEN {"none"}
  ELSE {"ok"} \cup (IF "disk" \in faults THEN {"low"} ELSE {})

\* downloadToTmpAndMove, lines 322-355: open with O_CREATE|O_APPEND, the
\* resume offset is the size of the file; the result of checkDiskSpace is
\* dropped; HttpGet is called with 5 retries.
DlOpen(p) ==
  /\ tk[p].pc = "dlopen"
  /\ \E disk \in DiskChecks(tk[p].size) :
     LET e == tk[p].etag
         i == IF incomplete[e] # 0 THEN incomplete[e] ELSE FreshIno
     IN /\ incomplete' = [incomplete EXCEPT ![e] = i]
        /\ tk' = [tk EXCEPT ![p].pc = "get", ![p].fd = i, ![p].resume = Len(ino[i]),
                             ![p].retries = DefaultRetries, ![p].disk = disk]
  /\ UNCHANGED <<blob, ptr, refs, snapDir, noExist>>
  /\ SetIno(ino)
  /\ EnvUnchanged /\ MemoUnchanged

SizeMatchesAlways(resumeSize, contentLength, expectedSize) == TRUE
\* HttpGet, lines 143-146: "total := resumeSize + int64(contentLength)" is
\* the expected size.
SizeMatches(resumeSize, contentLength, expectedSize) ==
  resumeSize + contentLength = expectedSize

\* HttpGet, lines 105-146: the GET (with Range when resuming) and the check of
\* resumeSize + Content-Length against the expected size.  The status code is
\* not looked at: a Range at or past the end of the file is answered 416 with
\* the length of the error body, which fails the check like any wrong length.
\* The expected size is the size of the metadata: with a size of 0 the length
\* of the file fails the check.
\*   "error": requestWrapper returns an error;
\*   "nolen": Content-Length is absent or not a number: strconv.Atoi fails,
\*            its error is never http.ErrHandlerTimeout, so there is no retry;
\*   a number: the Content-Length of the response: the length of the rest of
\*            the file, the length of the body of the 416, or, from a server
\*            at fault, another length; "badlen" is the error of line 145.
Get(p) ==
  /\ tk[p].pc = "get"
  /\ LET t == tk[p]
         lengths ==
           IF t.resume >= FileSize THEN {1}
           ELSE {FileSize - t.resume}
                  \cup (IF "get" \in faults THEN {FileSize - t.resume + 1} ELSE {})
         answers ==
           {<<"length", n>> : n \in lengths}
             \cup (IF t.resume < FileSize /\ "get" \in faults
                   THEN {<<"error", 0>>, <<"nolen", 0>>} ELSE {})
         sent == [t EXCEPT !.gets = @ + 1,
                           !.range = IF t.resume > 0 THEN <<t.resume>> ELSE <<>>]
     IN \E resp \in answers :
          tk' = [tk EXCEPT ![p] =
            CASE resp[1] = "error" -> [sent EXCEPT !.pc = "rename", !.xfer = "error"]
              [] resp[1] = "nolen" ->
                   [sent EXCEPT !.pc = "rename",
                                !.xfer = IF t.retries <= 0 THEN "maxretries" ELSE "nolen"]
              [] OTHER ->
                   IF SizeMatches(t.resume, resp[2], t.size)
                   THEN [sent EXCEPT !.pc = "stream", !.written = t.resume,
                                     !.clen = resp[2]]
                   ELSE [sent EXCEPT !.pc = "rename", !.xfer = "badlen",
                                     !.clen = resp[2]]]
  /\ FsUnchanged /\ EnvUnchanged /\ MemoUnchanged

\* HttpGet, lines 170-202: one Read of the body and what follows it.
\*   "chunk": n > 0 and no error, the chunk is appended to the file;
\*   "eofdata": the last chunk comes with io.EOF (io.Reader allows it): the
\*              loop breaks before the write;
\*   "eof": io.EOF alone;  "error": any other read error, returned at once.
\* nbRetries is tested at the top of the loop and set to 5 after a chunk;
\* nothing decrements it.
Stream(p) ==
  /\ tk[p].pc = "stream"
  /\ LET t == tk[p]
         left == FileSize - t.written
         outcomes ==
           (IF left > 0 THEN {"chunk"} ELSE {"eof"})
             \cup (IF left = 1 /\ "eofdata" \in faults THEN {"eofdata"} ELSE {})
             \cup (IF left > 0 /\ "read" \in faults THEN {"error"} ELSE {})
     IN \E o \in outcomes :
          /\ tk' = [tk EXCEPT ![p] =
               CASE t.retries <= 0 -> [t EXCEPT !.pc = "rename", !.xfer = "maxretries"]
                 [] o = "chunk" -> [t EXCEPT !.written = @ + 1, !.retries = DefaultRetries]
                 [] o = "error" -> [t EXCEPT !.pc = "rename", !.xfer = "readerr"]
                 \* line 199: newResumeSize != expectedSize
                 [] OTHER ->
                      [t EXCEPT !.pc = "rename",
                                !.xfer = IF t.written # FileSize THEN "short" ELSE "ok"]]
          /\ UNCHANGED <<incomplete, blob, ptr, refs, snapDir, noExist>>
          /\ SetIno(IF o = "chunk" /\ t.retries > 0
                    THEN [ino EXCEPT ![t.fd] = Append(@, <<t.etag, t.written + 1>>)]
                    ELSE ino)
  /\ EnvUnchanged /\ MemoUnchanged

\* downloadToTmpAndMove, lines 357-363: the error of HttpGet is printed, the
\* rename is done in every case and nil is returned.
Rename(p) ==
  /\ tk[p].pc = "rename"
  /\ LET e == tk[p].etag
     IN IF incomplete[e] # 0
        THEN /\ blob' = [blob EXCEPT ![e] = incomplete[e]]
             /\ incomplete' = [incomplete EXCEPT ![e] = 0]
        ELSE UNCHANGED <<blob, incomplete>>
  /\ tk' = [tk EXCEPT ![p].pc = "link", ![p].newBlob = TRUE, ![p].fd = 0]
  /\ UNCHANGED <<ptr, refs, snapDir, noExist>>
  /\ SetIno(ino)
  /\ EnvUnchanged /\ MemoUnchanged

\* A task is inside an access to the map symlinkSupported: the lookup of lines
\* 25-29, or the lazy creation and the store of lines 53-57.  No lock is held.
InMemo(t) == t.pc \in {"look", "store"}

\* Another task is inside the store of lines 53-57.
OtherStores(p) == \E q \in Tasks \ {p} : tk[q].pc = "store"

\* The Go runtime stops the process on a map access it detects as concurrent
\* with a write ("fatal error: concurrent map read and map write", "concurrent
\* map writes"): every call in progress ends there.
Crash ==
  [q \in Tasks |->
     IF tk[q].pc \in {"off", "idle", "spawned", "ret", "exited", "panic"} THEN tk[q]
     ELSE [Returned(tk[q], NoPath, TRUE) EXCEPT !.pc = "panic"]]

\* createSymlink (424-434) calls IsSymlinkSupported, whose first statement
\* (25) begins the lookup in the memo.
MemoLook(p) ==
  /\ tk[p].pc = "link"
  /\ tk' = [tk EXCEPT ![p].pc = "look"]
  /\ FsUnchanged /\ EnvUnchanged /\ MemoUnchanged

\* IsSymlinkSupported, lines 25-52: the lookup ends; without an entry the
\* probe is made: os.Create of src_test, os.Symlink of dst_test.
\*   A lookup concurrent with a store is a data race: it sees the entry or
\*   not, or the runtime stops the process.
\*   dst_test is removed when IsSymlinkSupported returns: while another call
\*   is at its store, os.Symlink of the probe is ErrExist.
\*   probe "fail": IsSymlinkSupported returns the error, createSymlink
\*   returns it (435-444), and fileDownload, which ignores it, returns the
\*   pointer path (682, 700).
Probe(p) ==
  /\ tk[p].pc = "look"
  /\ LET t == tk[p]
         k == <<t.commit, t.file>>
         hits == {symlinkSupported} \cup (IF OtherStores(p) THEN BOOLEAN ELSE {})
         probes == IF OtherStores(p) THEN {"fail"}
                   ELSE {"ok"} \cup (IF "probe" \in faults THEN {"fail"} ELSE {})
     IN \E hit \in hits, probe \in probes, crash \in {FALSE, OtherStores(p)} :
          tk' = IF crash THEN Crash
                ELSE [tk EXCEPT ![p] =
                        IF hit THEN [t EXCEPT !.pc = "mklink"]
                        ELSE IF probe = "ok" THEN [t EXCEPT !.pc = "store"]
                        ELSE Returned(t, k, FALSE)]
  /\ UNCHANGED <<incomplete, blob, ptr, refs, snapDir, noExist>>
  /\ SetIno(ino)
  /\ EnvUnchanged /\ MemoUnchanged

\* IsSymlinkSupported, lines 53-59: the map is made if nil and the entry is
\* stored.  A store concurrent with another access is a data race: it is
\* done, or the runtime stops the process.
MemoStore(p) ==
  /\ tk[p].pc = "store"
  /\ \E crash \in {FALSE, \E q \in Tasks \ {p} : InMemo(tk[q])} :
       /\ tk' = IF crash THEN Crash ELSE [tk EXCEPT ![p].pc = "mklink"]
       /\ symlinkSupported' = (symlinkSupported \/ ~crash)
  /\ UNCHANGED <<incomplete, blob, ptr, refs, snapDir, noExist>>
  /\ SetIno(ino)
  /\ EnvUnchanged

\* createSymlink (446-476) once symbolic links are known to be supported, and
\* the return of fileDownload (682, 700), which ignores createSymlink's error.
\*   os.Symlink on an existing destination is ErrExist: nothing is done;
\*   sym "fail": os.Symlink fails otherwise: a new blob is renamed to the
\*   pointer path (mv "ok"), else the blob is copied; with the source gone
\*   copyNoMatterWhat panics.
Link(p) ==
  /\ tk[p].pc = "mklink"
  /\ LET t == tk[p]
         e == t.etag
         k == <<t.commit, t.file>>
         links == {"ok"} \cup (IF "symlink" \in faults THEN {"fail"} ELSE {})
         moves == {"ok"} \cup (IF "rename" \in faults THEN {"fail"} ELSE {})
     IN \E sym \in links, mv \in moves :
          LET fallback == ptr[k].kind = "none" /\ sym = "fail"
              move == fallback /\ BlobExists(e) /\ t.newBlob /\ mv = "ok"
              copy == fallback /\ BlobExists(e) /\ ~move
              panic == fallback /\ ~BlobExists(e)
              fresh == FreshIno
          IN /\ tk' = [tk EXCEPT ![p] =
                  IF panic THEN [Returned(t, NoPath, TRUE) EXCEPT !.pc = "panic"]
                  ELSE Returned(t, k, FALSE)]
             /\ ptr' = IF ptr[k].kind = "none" /\ sym = "ok"
                         THEN [ptr EXCEPT ![k] = LinkPtr(e)]
                       ELSE IF move THEN [ptr EXCEPT ![k] = FilePtr(blob[e])]
                       ELSE IF copy THEN [ptr EXCEPT ![k] = FilePtr(fresh)]
                       ELSE ptr
             /\ blob' = IF move THEN [blob EXCEPT ![e] = 0] ELSE blob
             /\ UNCHANGED <<incomplete, refs, snapDir, noExist>>
             /\ SetIno(IF copy THEN [ino EXCEPT ![fresh] = ino[blob[e]]] ELSE ino)
  /\ EnvUnchanged /\ MemoUnchanged

\* The process of the caller is terminated while it holds the staging file
\* open; its memory, the memo of IsSymlinkSupported included, is gone.
Kill(p) ==
  /\ "kill" \in faults
  /\ p \in Callers
  /\ tk[p].pc \in {"get", "stream", "rename"}
  /\ tk' = [tk EXCEPT ![p] = [IdleTask EXCEPT !.pc = "idle", !.calls = tk[p].calls]]
  /\ UNCHANGED <<incomplete, blob, ptr, refs, snapDir, noExist>>
  /\ SetIno(ino)
  /\ symlinkSupported' = FALSE
  /\ EnvUnchanged

FileStep(p) ==
  \/ Fast(p) \/ Meta(p) \/ Ptr1(p) \/ MkRef(p) \/ Ptr2(p) \/ BlobStat(p)
  \/ DlStat(p) \/ DlInc(p) \/ DlOpen(p) \/ Get(p) \/ Stream(p) \/ Rename(p)
  \/ MemoLook(p) \/ Probe(p) \/ MemoStore(p) \/ Link(p)

\* ------------------------------------------------------------- snapshotDownload
GoId(i) == NProc + i

\* What getModelInfo can give: the manifest ("ok"), a connectivity error
\* ("offline") or another error ("error"); "none" when it is not called.
Manifests ==
  {"ok"} \cup (IF "head" \in faults THEN {"error"} ELSE {})
         \cup (IF "offline" \in faults THEN {"offline"} ELSE {})

IsOfflineErrorNever(info) == FALSE
\* isOfflineError: net.ErrClosed, deadline exceeded, net.OpError, DNS error.
IsOfflineError(info) == info = "offline"

\* A return of snapshotDownload.
SnapReturned(s, path, why) ==
  [s EXCEPT !.pc = "returned", !.path = path, !.err = (why # ""), !.why = why]

\* snapshotDownload up to the spawning of the downloads (lines 15-80 and
\* 151-222), given what the manifest fetch gave.
\*   16-18: an error that is not a connectivity error is returned;
\*   23-50: without a manifest the commit hash is the revision itself or the
\*          content of refs/<revision> (its absence is returned as the error of
\*          os.Stat), and an existing snapshots/<hash> is returned;
\*   52-56: the local-only error;
\*   58:    modelInfo.Sha of a nil modelInfo: the goroutine panics;
\*   66-80: refs/<revision> is rewritten when it exists already.
SnapResolve(r, force, local, info) ==
  LET s == [snap EXCEPT !.rev = r, !.force = force, !.local = local, !.info = info]
      commit == IF IsCommitHash(r) THEN r ELSE refs[r]
  IN /\ snap' =
          IF info \notin {"ok", "none"} /\ ~IsOfflineError(info)
            THEN SnapReturned(s, "", "fetch")
          ELSE IF info # "ok" /\ commit = "" THEN SnapReturned(s, "", "stat")
          ELSE IF info # "ok" /\ snapDir[commit] THEN SnapReturned(s, commit, "")
          ELSE IF local THEN SnapReturned(s, "", "localonly")
          ELSE IF info # "ok" THEN [s EXCEPT !.pc = "panic"]
          ELSE [s EXCEPT !.pc = "spawn"]
     /\ refs' = IF info = "ok" /\ ~local /\ r # SrvCommit /\ refs[r] # ""
                THEN [refs EXCEPT ![r] = SrvCommit] ELSE refs
     /\ UNCHANGED <<ino, incomplete, blob, ptr, snapDir, noExist, tk>>
     /\ UNCHANGED <<srvETag, faults, quota, wg, symlinkSupported, rq, fn>>

\* snapshotDownload of HFClient (lines 13-80): getModelInfo is called first,
\* whatever localFilesOnly is.
SnapCall(r, force, local) ==
  /\ snap.pc = "idle"
  /\ \E info \in Manifests : SnapResolve(r, force, local, info)

\* snapshotDownload of Client (lines 141-222): getModelInfo is called unless
\* localFilesOnly is set.
SnapCall2(r, force, local) ==
  /\ snap.pc = "idle"
  /\ \E info \in (IF local THEN {"none"} ELSE Manifests) :
       SnapResolve(r, force, local, info)

\* Lines 88-90: "go download(sibling.RFileName)" for the next sibling.
SnapSpawn ==
  /\ snap.pc = "spawn"
  /\ tk' = [tk EXCEPT ![GoId(snap.next)] =
       [IdleTask EXCEPT !.pc = "spawned", !.file = Siblings[snap.next],
                        !.rev = snap.rev, !.force = snap.force,
                        !.local = snap.local]]
  /\ snap' = [snap EXCEPT !.next = @ + 1,
                          !.pc = IF snap.next = Len(Siblings) THEN "wait" ELSE "spawn"]
  /\ FsUnchanged
  /\ UNCHANGED <<srvETag, faults, quota, wg, symlinkSupported, rq, fn>>

\* Lines 82-86: the goroutine starts: wg.Add(1), then fileDownload.
GoStart(g) ==
  /\ g \in GoIds
  /\ tk[g].pc = "spawned"
  /\ wg' = wg + 1
  /\ tk' = [tk EXCEPT ![g].pc = "fast"]
  /\ FsUnchanged
  /\ UNCHANGED <<srvETag, faults, quota, snap, symlinkSupported, rq, fn>>

\* Line 84: the deferred wg.Done(); the result of fileDownload is dropped.
GoDone(g) ==
  /\ g \in GoIds
  /\ tk[g].pc = "ret"
  /\ wg' = wg - 1
  /\ tk' = [tk EXCEPT ![g].pc = "exited"]
  /\ FsUnchanged
  /\ UNCHANGED <<srvETag, faults, quota, snap, symlinkSupported, rq, fn>>

\* Lines 92-94: wg.Wait() returns when the counter is zero.
SnapWait ==
  /\ snap.pc = "wait"
  /\ wg = 0
  /\ snap' = SnapReturned(snap, SrvCommit, "")
  /\ FsUnchanged
  /\ UNCHANGED <<srvETag, faults, quota, tk, wg, symlinkSupported, rq, fn>>

\* ------------------------------------------------------------- collaborators
\* A collaborator removes a pointer of the snapshot tree (os.Remove).
RemovePointer(k) ==
  /\ ptr[k].kind # "none"
  /\ ptr' = [ptr EXCEPT ![k] = NoPtr]
  /\ UNCHANGED <<incomplete, blob, refs, snapDir, noExist, tk>>
  /\ SetIno(ino)
  /\ EnvUnchanged /\ MemoUnchanged

\* ------------------------------------------------------------- requestWrapper
\* A URL is the pair of its scheme and host, one field here, and its path.  An
\* empty host is a URL with neither scheme nor host.
Hosts == {"hub", "cdn"}
Paths == {"/x", "/y"}
NoUrl == [host |-> "", path |-> ""]
Urls == [host : Hosts, path : Paths]
\* The values of a Location header: absent, a relative or an absolute target.
Locations == {NoUrl} \cup [host : {""}, path : Paths] \cup Urls

NoResp == [status |-> "none", from |-> NoUrl, loc |-> NoUrl]

NoReq == [pc |-> "off", follow |-> FALSE, raw |-> NoUrl, orig |-> NoUrl, cur |-> NoUrl,
          n |-> 0, wire |-> 0, rel |-> 0, first |-> NoResp, resp |-> NoResp,
          err |-> FALSE]

\* net/http, Request.URL.Parse(Location): a relative target is resolved
\* against the URL of the request it answers.
Resolve(base, loc) ==
  IF loc.host = "" THEN [host |-> base.host, path |-> loc.path] ELSE loc

NextUrlResolved(rawUrl, parsedTarget) ==
  [host |-> rawUrl.host, path |-> parsedTarget.path]
\* Lines 246-251: "nextUrl := url.URL{Scheme: parsedTarget.Scheme, Host:
\* parsedTarget.Host, Path: parsedTarget.Path, ...}".
NextUrl(rawUrl, parsedTarget) ==
  [host |-> parsedTarget.host, path |-> parsedTarget.path]

\* A caller calls requestWrapper(method, rawUrl, followRelativeRedirects, headers).
\* With followRelativeRedirects the first thing done is the request of line
\* 229; without it the request of lines 263-276.
ReqCall(u, follow) ==
  /\ rq.pc = "idle"
  /\ rq' = [NoReq EXCEPT !.pc = IF follow THEN "first" ELSE "second",
                         !.follow = follow, !.raw = u, !.orig = u, !.cur = u]
  /\ UNCHANGED <<srvETag, faults, quota, snap, wg, tk, fn>> /\ FsUnchanged /\ MemoUnchanged

\* One exchange of client.Do (line 274), which follows redirects itself.
\*   a URL without scheme: "unsupported protocol scheme", nothing is sent;
\*   "error": the exchange fails;
\*   "final": a response that is not a redirect;
\*   "redirect": 301, 302, 303, 307 or 308 with a Location: the client
\*               requests the target, or gives up after MaxRedirects requests;
\*   "other3xx": a 3xx the client does not follow (300, 304, 305, or any 3xx
\*               without Location): it is returned as the response.
ClientDo ==
  /\ rq.pc \in {"first", "second"}
  /\ LET after == IF rq.pc = "first" THEN "check" ELSE "done"
         failed == [rq EXCEPT !.pc = "done", !.err = TRUE]
     IN IF rq.cur.host = "" THEN rq' = failed
        ELSE \E ans \in {"error", "final", "redirect", "other3xx"}, loc \in Locations :
          /\ ans = "redirect" => loc # NoUrl
          /\ ans \in {"error", "final"} => loc = NoUrl
          /\ LET sent == [rq EXCEPT !.n = @ + 1, !.wire = @ + 1]
                 got == [status |-> IF ans = "final" THEN "final" ELSE "3xx",
                         from |-> rq.cur, loc |-> loc]
             IN rq' =
                  CASE ans = "error" -> [sent EXCEPT !.pc = "done", !.err = TRUE]
                    [] ans = "redirect" ->
                         IF sent.n >= MaxRedirects
                         THEN [sent EXCEPT !.pc = "done", !.err = TRUE]
                         ELSE [sent EXCEPT !.cur = Resolve(rq.cur, loc)]
                    [] OTHER ->
                         IF rq.pc = "first"
                         THEN [sent EXCEPT !.pc = after, !.first = got]
                         ELSE [sent EXCEPT !.pc = after, !.resp = got]
  /\ UNCHANGED <<srvETag, faults, quota, snap, wg, tk, fn>> /\ FsUnchanged /\ MemoUnchanged

\* Lines 234-255: a 3xx response whose Location has no host makes the wrapper
\* call itself on nextUrl; any other response makes it go on to the request of
\* lines 263-276, on rawUrl again.
ReqCheck ==
  /\ rq.pc = "check"
  /\ rq' = IF rq.first.status = "3xx" /\ rq.first.loc.host = ""
           THEN [rq EXCEPT !.pc = "first", !.raw = NextUrl(rq.raw, rq.first.loc),
                           !.cur = NextUrl(rq.raw, rq.first.loc), !.n = 0,
                           !.rel = @ + 1]
           ELSE [rq EXCEPT !.pc = "second", !.cur = rq.raw, !.n = 0]
  /\ UNCHANGED <<srvETag, faults, quota, snap, wg, tk, fn>> /\ FsUnchanged /\ MemoUnchanged

\* ------------------------------------------------------------- strings
\* A string is the sequence of its characters.
Strings(chars, n) == UNION {[1..m -> chars] : m \in 0..n}

RECURSIVE TrimLeft(_, _)
\* strings.TrimLeft(s, cutset)
TrimLeft(s, cutset) ==
  IF s # <<>> /\ Head(s) \in cutset THEN TrimLeft(Tail(s), cutset) ELSE s

RECURSIVE TrimRight(_, _)
\* strings.TrimRight(s, cutset)
TrimRight(s, cutset) ==
  IF s # <<>> /\ s[Len(s)] \in cutset
  THEN TrimRight(SubSeq(s, 1, Len(s) - 1), cutset) ELSE s

\* strings.Trim(s, cutset), and strings.TrimSpace with the white space as cutset
Trim(s, cutset) == TrimRight(TrimLeft(s, cutset), cutset)

\* strings.HasPrefix(s, prefix)
HasPrefix(s, prefix) ==
  Len(s) >= Len(prefix) /\ SubSeq(s, 1, Len(prefix)) = prefix

\* strings.TrimPrefix(s, prefix)
TrimPrefix(s, prefix) ==
  IF HasPrefix(s, prefix) THEN SubSeq(s, Len(prefix) + 1, Len(s)) ELSE s

WeakPrefix == <<"W", "/">>
Quote == "\""

\* Lines 478-483.
normalizeETag(etag) == Trim(TrimPrefix(Trim(etag, {" "}), WeakPrefix), {Quote})

\* The characters of the header values given to normalizeETag.
ETagChars == {"W", "/", Quote, " ", "a"}

NoFn == [op |-> "none", in |-> <<>>, out |-> <<>>]

\* A call normalizeETag(fn.in).
CallNormalizeETag ==
  /\ fn.op = "idle"
  /\ fn' = [fn EXCEPT !.op = "normalizeETag", !.out = normalizeETag(fn.in)]
  /\ UNCHANGED <<srvETag, faults, quota, snap, wg, tk, rq>>
  /\ FsUnchanged /\ MemoUnchanged

\* ------------------------------------------------------------- getFileMetadata
\* A header of the response: absent, or present with a value.
NoHeader == [present |-> FALSE, value |-> <<>>]
Header(v) == [present |-> TRUE, value |-> v]

\* response.Header.Get(name): the empty string when the header is absent.
HeaderGet(h) == IF h.present THEN h.value ELSE <<>>

\* The values of X-Linked-Etag and ETag in the responses tried.
ETagValues == {<<>>, <<Quote, "a", Quote>>, <<"W", "/", Quote, "b", Quote>>}
\* The values of X-Linked-Size and Content-Length in the responses tried.
SizeValues == Strings({"0", "2", "x"}, 2)

DigitValue == ("0" :> 0) @@ ("1" :> 1) @@ ("2" :> 2)

RECURSIVE Decimal(_)
Decimal(s) ==
  IF s = <<>> THEN 0
  ELSE 10 * Decimal(SubSeq(s, 1, Len(s) - 1)) + DigitValue[s[Len(s)]]

\* strconv.Atoi on a string of these characters: an error for the empty string
\* and for a string with a character that is not a digit.
Atoi(s) ==
  IF s # <<>> /\ \A i \in 1..Len(s) : s[i] \in DOMAIN DigitValue
  THEN [err |-> FALSE, n |-> Decimal(s)]
  ELSE [err |-> TRUE, n |-> 0]

getFileMetadataUnlinked(h) ==
  LET size == Atoi(HeaderGet(h.contentLength))
  IN IF size.err THEN [err |-> TRUE, etag |-> <<>>, size |-> 0]
     ELSE [err |-> FALSE, etag |-> normalizeETag(HeaderGet(h.etag)), size |-> size.n]
\* getFileMetadata, lines 713-744, on the headers of the response of the HEAD:
\* "etag := Get(X-Linked-Etag); if etag == \"\" { etag = Get(ETag) }", the same
\* for the size, whose strconv.Atoi error is returned with no metadata.
getFileMetadata(h) ==
  LET linkedEtag == HeaderGet(h.xLinkedEtag)
      etag == IF linkedEtag = <<>> THEN HeaderGet(h.etag) ELSE linkedEtag
      linkedSize == HeaderGet(h.xLinkedSize)
      sizeStr == IF linkedSize = <<>> THEN HeaderGet(h.contentLength) ELSE linkedSize
      size == Atoi(sizeStr)
  IN IF size.err THEN [err |-> TRUE, etag |-> <<>>, size |-> 0]
     ELSE [err |-> FALSE, etag |-> normalizeETag(etag), size |-> size.n]

\* A call getFileMetadata whose HEAD got the response with the headers fn.in.
CallGetFileMetadata ==
  /\ fn.op = "idle"
  /\ fn' = [fn EXCEPT !.op = "getFileMetadata", !.out = getFileMetadata(fn.in)]
  /\ UNCHANGED <<srvETag, faults, quota, snap, wg, tk, rq>>
  /\ FsUnchanged /\ MemoUnchanged

\* ------------------------------------------------------------- cache layout
\* strings.Split(s, sep) for a separator of one character.
RECURSIVE Split(_, _)
Split(s, sep) ==
  IF \E i \in 1..Len(s) : s[i] = sep
  THEN LET i == CHOOSE j \in 1..Len(s) :
                  s[j] = sep /\ \A k \in 1..(j - 1) : s[k] # sep
       IN <<SubSeq(s, 1, i - 1)>> \o Split(SubSeq(s, i + 1, Len(s)), sep)
  ELSE <<s>>

\* strings.Join(parts, sep).
RECURSIVE Join(_, _)
Join(parts, sep) ==
  IF parts = <<>> THEN <<>>
  ELSE IF Len(parts) = 1 THEN parts[1]
  ELSE parts[1] \o sep \o Join(Tail(parts), sep)

ModelRepoType == <<"m", "o", "d", "e", "l">>
SpaceRepoType == <<"s", "p", "a", "c", "e">>
DatasetRepoType == <<"d", "a", "t", "a", "s", "e", "t">>

repoFolderNameUnsplit(repoId, repoType) == repoType \o <<"s", "-", "-">> \o repoId
\* repoFolderName, lines 485-490.
repoFolderName(repoId, repoType) ==
  Join(<<repoType \o <<"s">>>> \o Split(repoId, "/"), <<"-", "-">>)

\* The elements of a sequence of strings that are not empty, in order.
NonEmpty(parts) == SelectSeq(parts, LAMBDA x : x # <<>>)

\* filepath.Clean on a path with no "." and no ".." element: the separators
\* that repeat or end the path are dropped, a rooted path stays rooted.
Clean(path) ==
  LET parts == NonEmpty(Split(path, "/"))
      rooted == path # <<>> /\ Head(path) = "/"
      body == Join(parts, <<"/">>)
  IN IF rooted THEN <<"/">> \o body
     ELSE IF body = <<>> THEN <<".">> ELSE body

\* filepath.Join(elems...): the empty elements are ignored, the rest joined
\* with the separator and cleaned; the empty string when all are empty.
filepathJoin(elems) ==
  IF NonEmpty(elems) = <<>> THEN <<>>
  ELSE Clean(Join(NonEmpty(elems), <<"/">>))

Blobs == <<"b", "l", "o", "b", "s">>
Snapshots == <<"s", "n", "a", "p", "s", "h", "o", "t", "s">>

\* The paths fileDownload computes (lines 524-548 and 662-663) for a file
\* whose metadata gave the normalized ETag in.etag and the commit in.commit.
fileDownloadPaths(in) ==
  LET fileName == IF in.subFolder # <<>>
                  THEN in.subFolder \o <<"/">> \o in.fileName
                  ELSE in.fileName
      storageFolder == filepathJoin(<<in.cacheDir, repoFolderName(in.repoId, in.repoType)>>)
      snapshotPath == filepathJoin(<<storageFolder, Snapshots>>)
  IN IF in.repoType \notin {SpaceRepoType, DatasetRepoType, ModelRepoType}
     THEN [err |-> TRUE, storageFolder |-> <<>>, blobPath |-> <<>>, pointerPath |-> <<>>]
     ELSE [err |-> FALSE,
           storageFolder |-> storageFolder,
           blobPath |-> filepathJoin(<<storageFolder, Blobs, in.etag>>),
           pointerPath |-> filepathJoin(<<snapshotPath, in.commit, fileName>>)]

\* A call of fileDownload, up to the paths it computes.
CallFileDownloadPaths ==
  /\ fn.op = "idle"
  /\ fn' = [fn EXCEPT !.op = "fileDownloadPaths", !.out = fileDownloadPaths(fn.in)]
  /\ UNCHANGED <<srvETag, faults, quota, snap, wg, tk, rq>>
  /\ FsUnchanged /\ MemoUnchanged

\* ------------------------------------------------------------- specifications
InitFs ==
  /\ ino = [i \in Inodes |-> <<>>]
  /\ incomplete = [e \in ETags |-> 0]
  /\ blob = [e \in ETags |-> 0]
  /\ ptr = [k \in PtrKeys |-> NoPtr]
  /\ refs = [r \in Revisions |-> ""]
  /\ snapDir = [c \in Commits |-> FALSE]
  /\ noExist = {}

NoSnap == [pc |-> "off", next |-> 1, rev |-> "", force |-> FALSE, local |-> FALSE,
           info |-> "none", path |-> "", err |-> FALSE, why |-> ""]

InitTasks(q) ==
  /\ quota = q
  /\ tk = [p \in Tasks |-> IF q[p] > 0 THEN [IdleTask EXCEPT !.pc = "idle"] ELSE IdleTask]
  /\ wg = 0
  /\ symlinkSupported = FALSE
  /\ rq = NoReq
  /\ fn = NoFn

\* Two files with the same content, or with different contents.
ServerStates == {[f \in Files |-> "e1"], [f \in Files |-> IF f = "a" THEN "e1" ELSE "e2"]}

CallSteps ==
  \E p \in Callers, f \in Files, r \in Revisions, force \in BOOLEAN : Call(p, f, r, force)

FileSteps == \E p \in Tasks : FileStep(p)

\* One caller that makes its calls one after the other, in an environment that
\* can fail: the network, the filesystem, and the caller's process being ended.
Init ==
  /\ srvETag \in ServerStates
  /\ faults = AllFaults
  /\ InitFs
  /\ InitTasks([p \in Tasks |-> IF p = 1 THEN MaxCalls ELSE 0])
  /\ snap = NoSnap

Next ==
  \/ CallSteps
  \/ FileSteps
  \/ \E p \in Callers : Kill(p)

Spec == Init /\ [][Next]_vars

\* Concurrent callers, one call each, with a network and a filesystem that
\* never fail.
InitConc ==
  /\ srvETag \in ServerStates
  /\ faults = {}
  /\ InitFs
  /\ InitTasks([p \in Tasks |-> IF p \in Callers THEN 1 ELSE 0])
  /\ snap = NoSnap

NextConc == CallSteps \/ FileSteps

SpecConc == InitConc /\ [][NextConc]_vars

\* One caller and a collaborator that removes pointers, on a filesystem where
\* symbolic links and renames work; the network can fail.
NetFaults == {"head", "get", "read", "eofdata", "kill"}

InitEvict ==
  /\ srvETag \in ServerStates
  /\ faults = NetFaults
  /\ InitFs
  /\ InitTasks([p \in Tasks |-> IF p = 1 THEN MaxCalls ELSE 0])
  /\ snap = NoSnap

NextEvict ==
  \/ Next
  \/ \E k \in PtrKeys : RemovePointer(k)

SpecEvict == InitEvict /\ [][NextEvict]_vars

\* One snapshotDownload call and its goroutines.
InitSnap ==
  /\ srvETag \in ServerStates
  /\ faults = AllFaults
  /\ InitFs
  /\ InitTasks([p \in Tasks |-> 0])
  /\ snap = [NoSnap EXCEPT !.pc = "idle"]

NextSnap ==
  \/ \E r \in Revisions, force, local \in BOOLEAN : SnapCall(r, force, local)
  \/ \E r \in Revisions, force, local \in BOOLEAN : SnapCall2(r, force, local)
  \/ SnapSpawn
  \/ \E g \in GoIds : GoStart(g)
  \/ FileSteps
  \/ \E g \in GoIds : GoDone(g)
  \/ SnapWait

SpecSnap == InitSnap /\ [][NextSnap]_vars

\* A program that calls FileDownload and then SnapshotDownload, with or
\* without localFilesOnly, on a network that can be unreachable.
OfflineFaults == {"head", "offline"}

Quiet == \A p \in Callers : tk[p].pc \in {"off", "idle", "ret", "panic"}

LocalCallSteps ==
  \E p \in Callers, f \in Files, r \in Revisions, force \in BOOLEAN :
    CallLocal(p, f, r, force)

InitOffline ==
  /\ srvETag \in ServerStates
  /\ faults = OfflineFaults
  /\ InitFs
  /\ InitTasks([p \in Tasks |-> IF p = 1 THEN 1 ELSE 0])
  /\ snap = [NoSnap EXCEPT !.pc = "idle"]

NextOffline ==
  \/ snap.pc = "idle" /\ CallSteps
  \/ snap.pc = "idle" /\ LocalCallSteps
  \/ FileSteps
  \/ Quiet /\ \E r \in Revisions, force, local \in BOOLEAN : SnapCall(r, force, local)
  \/ Quiet /\ \E r \in Revisions, force, local \in BOOLEAN : SnapCall2(r, force, local)
  \/ SnapSpawn
  \/ \E g \in GoIds : GoStart(g)
  \/ \E g \in GoIds : GoDone(g)
  \/ SnapWait

SpecOffline == InitOffline /\ [][NextOffline]_vars

\* One caller, with or without a token, against a server whose HEAD responses
\* can be incomplete or a 404, whose files can be on another host, and a
\* filesystem that can be short of space.
PreflightFaults == {"head", "meta", "lfs", "disk"}

TokenCallSteps ==
  \E p \in Callers, f \in Files, r \in Revisions, force \in BOOLEAN :
    CallToken(p, f, r, force)

InitPreflight ==
  /\ srvETag \in ServerStates
  /\ faults = PreflightFaults
  /\ InitFs
  /\ InitTasks([p \in Tasks |-> IF p = 1 THEN MaxCalls ELSE 0])
  /\ snap = NoSnap

NextPreflight ==
  \/ CallSteps
  \/ TokenCallSteps
  \/ FileSteps

SpecPreflight == InitPreflight /\ [][NextPreflight]_vars

\* One caller against a server whose X-Repo-Commit may be no commit hash.
CommitFaults == {"commit"}

InitCommit ==
  /\ srvETag \in ServerStates
  /\ faults = CommitFaults
  /\ InitFs
  /\ InitTasks([p \in Tasks |-> IF p = 1 THEN MaxCalls ELSE 0])
  /\ snap = NoSnap

NextCommit ==
  \/ CallSteps
  \/ FileSteps

SpecCommit == InitCommit /\ [][NextCommit]_vars

\* One call of requestWrapper, on any URL, against a server that may answer
\* every request in any way.
InitReq ==
  /\ srvETag = [f \in Files |-> "e1"]
  /\ faults = {}
  /\ InitFs
  /\ quota = [p \in Tasks |-> 0]
  /\ tk = [p \in Tasks |-> IdleTask]
  /\ wg = 0
  /\ symlinkSupported = FALSE
  /\ snap = NoSnap
  /\ rq = [NoReq EXCEPT !.pc = "idle"]
  /\ fn = NoFn

NextReq ==
  \/ \E u \in Urls, follow \in BOOLEAN : ReqCall(u, follow)
  \/ ClientDo
  \/ ReqCheck

SpecReq == InitReq /\ [][NextReq]_vars

\* The state in which no download, snapshot or request is under way.
InitNoCall ==
  /\ srvETag = [f \in Files |-> "e1"]
  /\ faults = {}
  /\ InitFs
  /\ quota = [p \in Tasks |-> 0]
  /\ tk = [p \in Tasks |-> IdleTask]
  /\ wg = 0
  /\ symlinkSupported = FALSE
  /\ snap = NoSnap
  /\ rq = NoReq

\* normalizeETag on every header value of at most MaxLen characters.
InitETag ==
  /\ InitNoCall
  /\ fn \in {[NoFn EXCEPT !.op = "idle", !.in = e] : e \in Strings(ETagChars, MaxLen)}

NextETag == CallNormalizeETag

SpecETag == InitETag /\ [][NextETag]_vars

\* getFileMetadata on every combination of absent and present headers.
ResponseHeaders ==
  [xLinkedEtag : {NoHeader} \cup {Header(v) : v \in ETagValues},
   etag : {NoHeader} \cup {Header(v) : v \in ETagValues},
   xLinkedSize : {NoHeader} \cup {Header(v) : v \in SizeValues},
   contentLength : {NoHeader} \cup {Header(v) : v \in SizeValues}]

InitMetadata ==
  /\ InitNoCall
  /\ fn \in {[NoFn EXCEPT !.op = "idle", !.in = h] : h \in ResponseHeaders}

NextMetadata == CallGetFileMetadata

SpecMetadata == InitMetadata /\ [][NextMetadata]_vars

\* The cache layout for repositories, files and metadata of every shape.
NameChars == {"a", "/"}
CacheDirs == {<<"/", "c">>, <<"c">>}
RepoTypes == {ModelRepoType, SpaceRepoType, DatasetRepoType, <<"x">>}
\* A commit hash, written with one character.
CommitNames == {<<>>, <<"h">>}

LayoutInputs ==
  [cacheDir : CacheDirs,
   repoId : Strings(NameChars, MaxLen),
   repoType : RepoTypes,
   subFolder : {<<>>, <<"a">>},
   fileName : Strings(NameChars, 3) \ {<<>>},
   etag : {<<"a">>, <<"a", "a">>},
   commit : CommitNames]

InitLayout ==
  /\ InitNoCall
  /\ fn \in {[NoFn EXCEPT !.op = "idle", !.in = i] : i \in LayoutInputs}

NextLayout == CallFileDownloadPaths

SpecLayout == InitLayout /\ [][NextLayout]_vars

\* ------------------------------------------------------------- properties
Complete(e) == BlobExists(e) /\ ino[blob[e]] = Content(e)

HttpGetFailed(t) ==
  t.xfer \in {"error", "nolen", "badlen", "readerr", "short", "maxretries"}

\* C1: every snapshot pointer refers to a blob that exists and holds the whole
\* content the metadata fetch announced.
C1_PointerToCompleteBlob ==
  \A k \in PtrKeys : ptr[k].kind = "link" => Complete(ptr[k].etag)

\* C2: a call whose transfer ended with a number of bytes other than the
\* expected size returns an error and no pointer path.
C2_MismatchIsError ==
  \A p \in Tasks :
    tk[p].pc = "ret" /\ HttpGetFailed(tk[p]) => tk[p].err /\ tk[p].path = NoPath

\* C3: no two calls are at the same time between the opening of
\* blobs/<etag>.incomplete and the publish rename for the same ETag.
Transferring(p) == tk[p].pc \in {"get", "stream", "rename"}

C3_OneWriterPerETag ==
  \A p, q \in Tasks :
    p # q /\ Transferring(p) /\ Transferring(q) => tk[p].etag # tk[q].etag

\* C4: of the concurrent calls for one uncached file, one performs a
\* successful transfer and no other does, and the blob at blobs/<etag> is never
\* partial or corrupt.
C4_OneTransferCleanBlob ==
  (\A p \in Callers : ~tk[p].force) =>
    /\ \A p, q \in Callers :
         p # q /\ tk[p].file = tk[q].file
           => ~(tk[p].xfer = "ok" /\ tk[q].xfer = "ok")
    /\ \A e \in ETags : BlobExists(e) => ino[blob[e]] = Content(e)

\* C5: when snapshotDownload has returned the snapshot directory, every
\* goroutine it spawned has run fileDownload to its end.
C5_JoinWaitsForAll ==
  snap.pc = "returned" /\ ~snap.err =>
    \A i \in 1..Len(Siblings) : tk[GoId(i)].pc = "exited"

\* C6: when the join of snapshotDownload completes and fileDownload has
\* returned an error for a file of the manifest, snapshotDownload returns an
\* error, not the snapshot path with a nil error.
C6_FileFailureSurfaced ==
  [][(/\ snap.pc = "wait" /\ snap'.pc = "returned"
      /\ \E g \in GoIds : tk[g].pc = "exited" /\ tk[g].err)
     => snap'.err]_vars

\* C7: a transfer (no force) interrupted after k < size bytes leaves
\* .incomplete with the k bytes and publishes no blob; a call that resumes at
\* k > 0 and whose transfer succeeds publishes the content of a clean download.
C7_InterruptThenResume ==
  \A p \in Callers :
    tk[p].pc = "link" /\ tk[p].newBlob /\ ~tk[p].force =>
      /\ tk[p].xfer = "readerr" =>
           /\ ~BlobExists(tk[p].etag)
           /\ incomplete[tk[p].etag] # 0
           /\ ino[incomplete[tk[p].etag]] = SubSeq(Content(tk[p].etag), 1, tk[p].written)
      /\ tk[p].xfer = "ok" /\ tk[p].resume > 0 => Complete(tk[p].etag)

\* C8: once blobs/<etag> holds the complete content, no step changes what is
\* at that path.
C8_BlobImmutable ==
  [][\A e \in ETags : Complete(e) => Complete(e)']_vars

\* C9: two calls with the same arguments and forceDownload=false issue at most
\* one GET in total; after a first call that returned without error the second
\* issues none, leaves blobs/ as it is and, when its metadata request is
\* answered, returns the path the first returned.
Repeating(p) ==
  /\ tk[p].pc \notin {"off", "idle", "ret"}
  /\ tk[p].prev.valid
  /\ ~tk[p].force /\ ~tk[p].prev.force
  /\ tk[p].prev.file = tk[p].file /\ tk[p].prev.rev = tk[p].rev

C9_SecondCallIsCacheHit ==
  [][\A p \in Callers :
       Repeating(p) /\ tk'[p].pc # "idle" =>
         /\ tk[p].prev.gets + tk'[p].gets <= 1
         /\ ~tk[p].prev.err =>
              /\ tk'[p].gets = 0
              /\ blob' = blob /\ incomplete' = incomplete
              /\ \A e \in ETags : BlobExists(e) => ino'[blob[e]] = ino[blob[e]]
              /\ tk'[p].pc = "ret" /\ tk'[p].head # "fail" =>
                   ~tk'[p].err /\ tk'[p].path = tk[p].prev.path]_vars

C9_Witness ==
  \E p \in Callers :
    /\ tk[p].pc = "ret" /\ tk[p].prev.valid
    /\ ~tk[p].force /\ ~tk[p].prev.force
    /\ tk[p].prev.file = tk[p].file /\ tk[p].prev.rev = tk[p].rev
    /\ tk[p].prev.gets = 1 /\ ~tk[p].prev.err
    /\ tk[p].gets = 0 /\ ~tk[p].err /\ tk[p].path = tk[p].prev.path
    /\ tk[p].head = "ok"

\* C10: two files with the same ETag that both have a pointer are links to
\* the one blob blobs/<etag>, and when one of the two pointers is removed the
\* other still gives the whole content.
C10_OneBlobPerETag ==
  [][\A k1, k2 \in PtrKeys :
       k1 # k2 /\ srvETag[k1[2]] = srvETag[k2[2]] =>
         /\ ptr'[k1].kind # "none" /\ ptr'[k2].kind # "none" =>
              /\ ptr'[k1] = LinkPtr(srvETag[k1[2]]) /\ ptr'[k2] = ptr'[k1]
              /\ blob'[srvETag[k1[2]]] # 0
         /\ ptr[k1].kind # "none" /\ ptr[k2].kind # "none" /\ ptr'[k1].kind = "none" =>
              PointerContent(k2)' = Content(srvETag[k2[2]])]_vars

\* C11: a call that is not forced and finds the blob but no pointer (it is at
\* createSymlink with newBlob = false) returns the pointer path with a pointer
\* on disk that gives the content of the blob; it has issued no GET, and the
\* step leaves blobs/<etag> and every .incomplete file as they were.
C11_PointerFromExistingBlob ==
  [][\A p \in Callers :
       tk[p].pc \in {"look", "mklink"} /\ ~tk[p].newBlob /\ tk'[p].pc = "ret" =>
         /\ tk'[p].path = <<tk[p].commit, tk[p].file>> /\ ~tk'[p].err
         /\ ptr'[<<tk[p].commit, tk[p].file>>].kind # "none"
         /\ ContentAt(ptr', blob', ino', <<tk[p].commit, tk[p].file>>)
              = ino[blob[tk[p].etag]]
         /\ tk'[p].gets = 0
         /\ blob' = blob /\ incomplete' = incomplete
         /\ ino'[blob[tk[p].etag]] = ino[blob[tk[p].etag]]]_vars

\* C12: when a call of fileDownload has returned a pointer path with a nil
\* error, there is a pointer (link or regular file) at that path.
C12_ReturnedPointerExists ==
  \A p \in Callers :
    tk[p].pc = "ret" /\ ~tk[p].err /\ tk[p].path # NoPath =>
      ptr[tk[p].path].kind # "none"

\* HttpGet has returned because the connection failed (the request, or a read
\* of the body) and it had written nothing.
FailedWithoutProgress(t) ==
  /\ t.xfer \in {"error", "readerr", "maxretries"}
  /\ t.xfer = "error" \/ t.written = t.resume

\* C13: when HttpGet has returned after a connection that failed with no
\* progress, it has made at most DefaultRetries attempts and what it returns
\* is the "max retries exceeded" error.
C13_RetriesThenMaxRetries ==
  \A p \in Callers :
    tk[p].pc = "rename" /\ FailedWithoutProgress(tk[p]) =>
      tk[p].gets <= DefaultRetries /\ tk[p].xfer = "maxretries"

\* C14: in the streaming loop of HttpGet a step that appends a chunk leaves
\* the budget at DefaultRetries, a step without an error does not lower the
\* budget, and a read error after progress, with budget left, does not end
\* the transfer.
C14_ErrorAfterProgressRetried ==
  [][\A p \in Callers :
       tk[p].pc = "stream" /\ tk'[p].pc \in {"stream", "rename"} =>
         /\ tk'[p].written > tk[p].written => tk'[p].retries = DefaultRetries
         /\ tk'[p].xfer \in {"none", "ok", "short"} => tk'[p].retries >= tk[p].retries
         /\ tk[p].written > tk[p].resume /\ tk[p].retries > 0 =>
              tk'[p].xfer # "readerr"]_vars

\* C15: at the start of a transfer a forced call removes the .incomplete file
\* and resumes at 0; a call that is not forced leaves the file as it is and
\* resumes at its size; the GET carries Range: bytes=<offset>- exactly when the
\* offset is positive.
C15_ResumeOffsetAndRange ==
  [][\A p \in Callers :
       /\ tk[p].pc = "dlinc" /\ tk'[p].pc = "dlopen" =>
            IF tk[p].force THEN incomplete'[tk[p].etag] = 0
            ELSE /\ incomplete' = incomplete
                 /\ incomplete[tk[p].etag] # 0 =>
                      ino'[incomplete[tk[p].etag]] = ino[incomplete[tk[p].etag]]
       /\ tk[p].pc = "dlopen" /\ tk'[p].pc = "get" =>
            tk'[p].resume = IF tk[p].force \/ incomplete[tk[p].etag] = 0 THEN 0
                            ELSE Len(ino[incomplete[tk[p].etag]])
       /\ tk[p].pc = "get" /\ tk'[p].pc \in {"stream", "rename"} =>
            tk'[p].range = IF tk[p].resume > 0 THEN <<tk[p].resume>> ELSE <<>>]_vars

\* A call that is not forced has sent its GET with a Range header for the
\* size of the .incomplete file it found.
C15_Witness ==
  \E p \in Callers :
    /\ tk[p].pc = "stream" /\ ~tk[p].force
    /\ tk[p].resume > 0 /\ tk[p].range = <<tk[p].resume>>
    /\ tk[p].written = tk[p].resume
    /\ Len(ino[tk[p].fd]) = tk[p].resume

\* C16: when the manifest fetch of snapshotDownload fails with a connectivity
\* error while refs/<revision> exists and snapshots/<hash> exists for its
\* content, the call returns that snapshot directory with a nil error; and
\* after a manifest fetch that failed so, no download is ever spawned.
C16_OfflineCacheHit ==
  [][/\ (/\ snap.pc = "idle" /\ snap'.pc # "idle" /\ snap'.info = "offline"
         /\ ~IsCommitHash(snap'.rev) /\ refs[snap'.rev] # ""
         /\ snapDir[refs[snap'.rev]])
        => /\ snap'.pc = "returned" /\ ~snap'.err
           /\ snap'.path = refs[snap'.rev]
           /\ tk' = tk /\ refs' = refs
     /\ snap'.info = "offline"
        => /\ snap'.pc \notin {"spawn", "wait"}
           /\ \A g \in GoIds : tk'[g].pc = "off"]_vars

\* An offline snapshotDownload of a mutable revision has returned the cached
\* snapshot directory.
C16_Witness ==
  /\ snap.pc = "returned" /\ snap.info = "offline" /\ ~snap.err
  /\ ~IsCommitHash(snap.rev) /\ refs[snap.rev] # "" /\ snap.path = refs[snap.rev]
  /\ snapDir[snap.path]
  /\ \A g \in GoIds : tk[g].pc = "off"

\* The commit hash a revision stands for without the network: itself, or the
\* content of refs/<revision> ("" when there is none).
CachedCommit(r) == IF IsCommitHash(r) THEN r ELSE refs[r]

\* C17: when the manifest fetch fails with a connectivity error and the cache
\* has no refs/<revision> or no snapshots/<hash> (the revision being a commit
\* hash included), snapshotDownload returns with a non-nil error.
C17_OfflineNoCacheIsError ==
  [][(/\ snap.pc = "idle" /\ snap'.pc # "idle" /\ snap'.info = "offline"
      /\ CachedCommit(snap'.rev) = "" \/ ~snapDir[CachedCommit(snap'.rev)])
     => snap'.pc = "returned" /\ snap'.err]_vars

\* C18: a call with localFilesOnly set issues no network request: fileDownload
\* no metadata HEAD and no download GET, snapshotDownload no manifest GET and
\* no download.
C18_LocalOnlyNoNetwork ==
  /\ \A p \in Tasks : tk[p].local => tk[p].head = "none" /\ tk[p].gets = 0
  /\ snap.local =>
       /\ snap.info = "none"
       /\ \A g \in GoIds : tk[g].pc = "off"

\* C19: a snapshotDownload with localFilesOnly set (and no manifest fetch that
\* failed for another reason than connectivity) returns the cached snapshot
\* directory when the cache has the commit hash of the revision and
\* snapshots/<hash>; when it has not, it returns the local-only error and no
\* other.
C19_LocalOnlyResolution ==
  [][(/\ snap.pc = "idle" /\ snap'.pc # "idle" /\ snap'.local
      /\ snap'.info # "error") =>
       IF CachedCommit(snap'.rev) # "" /\ snapDir[CachedCommit(snap'.rev)]
       THEN /\ snap'.pc = "returned" /\ ~snap'.err
            /\ snap'.path = CachedCommit(snap'.rev)
       ELSE /\ snap'.pc = "returned" /\ snap'.err
            /\ snap'.why = "localonly"]_vars

\* C20: when a call of fileDownload for a mutable revision has returned
\* without error after the server resolved the revision to a commit hash,
\* refs/<revision> holds that hash; and no refs entry is ever written for a
\* revision that is a commit hash.
C20_RefHoldsResolvedCommit ==
  /\ \A p \in Callers :
       (/\ tk[p].pc = "ret" /\ ~tk[p].err /\ tk[p].path # NoPath
        /\ tk[p].head = "ok" /\ ~IsCommitHash(tk[p].rev))
       => refs[tk[p].rev] = SrvCommit
  /\ \A r \in Revisions : IsCommitHash(r) => refs[r] = ""

\* C21: when the revision is a commit hash and snapshots/<revision>/<file>
\* exists, a call without forceDownload returns that pointer path at the fast
\* path with no network request, and a call with forceDownload does not return
\* there but goes on to the metadata resolution.
C21_FastPath ==
  [][\A p \in Callers :
       LET k == <<tk[p].rev, tk[p].file>>
       IN (tk[p].pc = "fast" /\ tk'[p] # tk[p]
           /\ IsCommitHash(tk[p].rev) /\ PointerExists(k))
          => IF tk[p].force
             THEN tk'[p].pc = "meta"
             ELSE /\ tk'[p].pc = "ret" /\ tk'[p].path = k /\ ~tk'[p].err
                  /\ tk'[p].head = "none" /\ tk'[p].gets = 0]_vars

\* The HEAD responses that succeed but lack the commit hash, the ETag or a size.
IncompleteMeta == {"nocommit", "noetag", "nosize"}

\* C22: a call whose metadata HEAD succeeded with a response that lacks the
\* commit hash or the ETag, or gives size zero, returns an error at once: it
\* sends no further request and creates no blob, pointer or ref.
C22_IncompleteMetaIsFatal ==
  [][\A p \in Callers :
       (tk'[p] # tk[p] /\ tk'[p].resp \in IncompleteMeta)
         => /\ tk'[p].pc = "ret" /\ tk'[p].err
            /\ tk'[p].api = "none" /\ tk'[p].gets = 0
            /\ UNCHANGED <<incomplete, blob, ptr, refs>>]_vars

\* C23: a call whose metadata fetch reported that the file does not exist at
\* a commit has returned the error, and the marker .no_exist/<commit>/<file>
\* is on disk.
C23_NotFoundMarker ==
  \A p \in Callers :
    tk[p].resp = "notfound"
      => /\ tk[p].pc = "ret" /\ tk[p].err
         /\ <<SrvCommit, tk[p].file>> \in noExist

\* req.Header.Set (line 271) makes the canonical name of every key of the map.
CarriesAuthorization(h) == h \cap {"Authorization", "authorization"} # {}

\* C24: the download GET carries no Authorization header when the resolved
\* location is on another host than the API host, and the GET of a client with
\* a token carries it when the location is on the API host.
C24_AuthorizationByHost ==
  [][\A p \in Callers :
       (tk[p].pc = "get" /\ tk'[p].gets = tk[p].gets + 1)
         => /\ tk[p].loc = "other" => ~CarriesAuthorization(tk[p].hdrs)
            /\ (tk[p].loc = "same" /\ tk[p].token)
                 => CarriesAuthorization(tk[p].hdrs)]_vars

\* C25: a 3xx response with a relative Location makes requestWrapper request
\* the target at the scheme and host of the original request; a 3xx response
\* with an absolute Location makes that target final: the response returned is
\* the response of that target.
C25_RedirectTargets ==
  [][/\ (/\ rq.pc = "check" /\ rq.first.status = "3xx"
         /\ rq.first.loc # NoUrl /\ rq.first.loc.host = "")
        => /\ rq'.pc = "first"
           /\ rq'.cur = [host |-> rq.orig.host, path |-> rq.first.loc.path]
     /\ (/\ rq.pc = "second" /\ rq'.pc = "done" /\ ~rq'.err
         /\ rq.first.status = "3xx" /\ rq.first.loc.host # "")
        => rq'.resp.from = rq.first.loc]_vars

Running ==
  {g \in GoIds : tk[g].pc \notin {"off", "spawned", "ret", "exited", "panic"}}

\* C27: the number of fileDownload calls of snapshotDownload that run at the
\* same time stays within a limit that does not depend on the manifest: for a
\* manifest of one file more than the limit, they never all run together.
C27_BoundedFanOut == Cardinality(Running) <= Len(Siblings) - 1

\* C28: no two tasks are inside an access to the memo symlinkSupported at the
\* same time when one of the accesses is the store.
C28_MemoMutualExclusion ==
  \A p, q \in Tasks :
    p # q /\ tk[p].pc = "store" => ~InMemo(tk[q])

\* C29: a call whose disk space check found too little space on the staging
\* or the destination location sends no GET, and returns an error.
C29_DiskSpaceGuard ==
  \A p \in Callers :
    tk[p].disk = "low"
      => /\ tk[p].gets = 0
         /\ tk[p].pc = "ret" => tk[p].err

\* C30: when createSymlink ends without having made a symbolic link, for a
\* pointer that was absent and a blob that is there, the pointer is a regular
\* file with the content of the blob: the blob renamed, or copied for a call
\* that did not download it, and then blobs/<etag> is left as it was.
C30_FallbackWithoutSymlink ==
  [][\A p \in Callers :
       LET k == <<tk[p].commit, tk[p].file>>
           e == tk[p].etag
       IN (/\ tk[p].pc \in {"look", "mklink"} /\ tk'[p].pc = "ret"
           /\ ptr[k].kind = "none" /\ BlobExists(e)
           /\ ptr'[k].kind # "link")
          => /\ ptr'[k].kind = "file"
             /\ ContentAt(ptr', blob', ino', k) = ino[blob[e]]
             /\ ~tk[p].newBlob
                  => blob' = blob /\ ino'[blob[e]] = ino[blob[e]]]_vars

\* C31: when createSymlink finds the destination already there, the intended
\* symbolic link to the blob is left as it is, and in every case the
\* destination gives the content of the blob once the call is over.
C31_ExistingDestination ==
  [][\A p \in Tasks :
       LET k == <<tk[p].commit, tk[p].file>>
           e == tk[p].etag
       IN (/\ tk[p].pc = "mklink" /\ tk'[p].pc = "ret"
           /\ ptr[k].kind # "none" /\ BlobExists(e))
          => /\ ptr[k] = LinkPtr(e) => ptr'[k] = ptr[k]
             /\ ContentAt(ptr', blob', ino', k) = ino[blob[e]]]_vars

\* C32: in a call that transfers content the steps follow one another, each
\* after the success of the one before: the transfer after the metadata were
\* resolved, the publishing rename after the transfer succeeded, the creation
\* of the pointer after the blob was published.
C32_StrictOrder ==
  \A p \in Callers :
    tk[p].gets > 0 =>
      /\ tk[p].pc \in {"stream", "rename", "link", "look", "store", "mklink"}
           => tk[p].head = "ok"
      /\ tk[p].pc \in {"rename", "link", "look", "store", "mklink"}
           => tk[p].xfer = "ok"
      /\ tk[p].pc \in {"link", "look", "store", "mklink"}
           => BlobExists(tk[p].etag)

\* A header that is present with a value that is not empty.
Given(h) == h.present /\ h.value # <<>>

\* C33 as stated: the ETag is taken from X-Linked-Etag when that header is
\* present and from ETag otherwise, the size from X-Linked-Size when present
\* and from Content-Length otherwise.
C33_LinkedHeadersWhenPresent ==
  fn.op = "getFileMetadata" =>
    LET h == fn.in
        etag == IF h.xLinkedEtag.present THEN h.xLinkedEtag.value ELSE HeaderGet(h.etag)
        size == Atoi(IF h.xLinkedSize.present THEN h.xLinkedSize.value
                     ELSE HeaderGet(h.contentLength))
    IN /\ fn.out.err = size.err
       /\ ~fn.out.err => fn.out.etag = normalizeETag(etag) /\ fn.out.size = size.n

\* C33: the ETag is taken from X-Linked-Etag when that header is present with
\* a value that is not empty and from ETag otherwise, the size from
\* X-Linked-Size when it is present with a value that is not empty and from
\* Content-Length otherwise; a size that is not a number is an error.
C33_LinkedHeadersWhenGiven ==
  fn.op = "getFileMetadata" =>
    LET h == fn.in
        etag == IF Given(h.xLinkedEtag) THEN h.xLinkedEtag.value ELSE HeaderGet(h.etag)
        size == Atoi(IF Given(h.xLinkedSize) THEN h.xLinkedSize.value
                     ELSE HeaderGet(h.contentLength))
    IN /\ fn.out.err = size.err
       /\ ~fn.out.err => fn.out.etag = normalizeETag(etag) /\ fn.out.size = size.n

\* Both ETag headers are given with different values, and both size headers.
C33_Witness ==
  /\ fn.op = "getFileMetadata" /\ ~fn.out.err
  /\ Given(fn.in.xLinkedEtag) /\ Given(fn.in.etag)
  /\ fn.in.xLinkedEtag.value # fn.in.etag.value
  /\ fn.out.etag = <<"a">>
  /\ Given(fn.in.xLinkedSize) /\ Given(fn.in.contentLength)
  /\ fn.in.xLinkedSize.value # fn.in.contentLength.value

\* s with every occurrence of the character ch replaced by the string by.
RECURSIVE ReplaceAll(_, _, _)
ReplaceAll(s, ch, by) ==
  IF s = <<>> THEN <<>>
  ELSE (IF Head(s) = ch THEN by ELSE <<Head(s)>>) \o ReplaceAll(Tail(s), ch, by)

\* A relative name whose elements are all non-empty.
PlainName(name) ==
  /\ name # <<>>
  /\ Head(name) # "/" /\ name[Len(name)] # "/"
  /\ \A i \in 1..(Len(name) - 1) : ~(name[i] = "/" /\ name[i + 1] = "/")

\* C34: the storage folder is <cacheRoot>/<repoType>s--<repoId with every "/"
\* replaced by "--">, the blob path is blobs/<normalized ETag> under it and the
\* pointer path of a file with a commit hash is snapshots/<commitHash>/<file
\* name, prefixed by the subfolder when one is given>.
C34_CacheLayout ==
  (fn.op = "fileDownloadPaths" /\ ~fn.out.err) =>
    LET in == fn.in
        folder == in.cacheDir \o <<"/">> \o in.repoType \o <<"s", "-", "-">>
                    \o ReplaceAll(in.repoId, "/", <<"-", "-">>)
        name == IF in.subFolder # <<>> THEN in.subFolder \o <<"/">> \o in.fileName
                ELSE in.fileName
    IN /\ fn.out.storageFolder = folder
       /\ fn.out.blobPath = folder \o <<"/">> \o Blobs \o <<"/">> \o in.etag
       /\ (in.commit # <<>> /\ PlainName(in.fileName))
            => fn.out.pointerPath =
                 folder \o <<"/">> \o Snapshots \o <<"/">> \o in.commit \o <<"/">> \o name

\* A repository user/name, a file in a subfolder, a commit hash.
C34_Witness ==
  /\ fn.op = "fileDownloadPaths" /\ ~fn.out.err
  /\ fn.in.repoId = <<"a", "/", "a">> /\ fn.in.repoType = ModelRepoType
  /\ fn.in.subFolder # <<>> /\ fn.in.commit # <<>>
  /\ fn.in.fileName = <<"a", "/", "a">>
  /\ fn.out.pointerPath =
       fn.in.cacheDir \o <<"/", "m", "o", "d", "e", "l", "s", "-", "-", "a", "-", "-", "a", "/">>
         \o Snapshots \o <<"/", "h", "/", "a", "/", "a", "/", "a">>

\* C35: fileDownload never returns the pair ("", nil): a call that returns no
\* error returns the path of a pointer.
C35_PathOrError ==
  \A p \in Tasks : (tk[p].pc = "ret" /\ ~tk[p].err) => tk[p].path # NoPath

\* C36: every pointer path returned or created by fileDownload is
\* snapshots/<commit>/<fileName> with a commit that matches the commit-hash
\* pattern; no pointer is created directly under snapshots/.
C36_HashedPointerPaths ==
  /\ \A k \in PtrKeys : ptr[k].kind # "none" => IsCommitHash(k[1])
  /\ \A p \in Tasks :
       (tk[p].pc = "ret" /\ tk[p].path # NoPath) => IsCommitHash(tk[p].path[1])

\* C37: every write to refs/<revision> stores a string that matches the
\* commit-hash pattern, never an empty one.
C37_RefsHoldCommitHashes ==
  [][\A r \in Revisions : refs'[r] # refs[r] => IsCommitHash(refs'[r])]_vars

\* C38: when several calls probe the same directory concurrently, on a
\* filesystem with symbolic links, the probe of IsSymlinkSupported fails for
\* none of them: no call leaves the probe with the error of another's
\* src_test or dst_test.
C38_ConcurrentProbes ==
  [][\A p \in Tasks :
       (tk[p].pc = "look" /\ "probe" \notin faults) => tk'[p].pc # "ret"]_vars

\* C39: in HttpGet, when resumeSize plus the Content-Length of the response
\* differs from the expected size, the error is returned with nothing written:
\* the staging file is the same file with the same content as before.
C39_SizeMismatchWritesNothing ==
  [][\A p \in Tasks :
       (/\ tk[p].pc = "get" /\ tk'[p].gets = tk[p].gets + 1
        /\ tk'[p].xfer \notin {"error", "nolen", "maxretries"}
        /\ tk[p].resume + tk'[p].clen # tk[p].size)
         => /\ tk'[p].xfer = "badlen" /\ tk'[p].pc = "rename"
            /\ tk'[p].written = tk[p].written
            /\ incomplete' = incomplete
            /\ ino' = ino]_vars

\* A resumed transfer was answered with a length that does not add up, and the
\* staging file still holds what it held.
C39_Witness ==
  \E p \in Callers :
    /\ tk[p].pc = "rename" /\ tk[p].xfer = "badlen"
    /\ tk[p].resume > 0 /\ tk[p].resume < FileSize
    /\ tk[p].fd # 0 /\ Len(ino[tk[p].fd]) = tk[p].resume

\* C40: the result of normalizeETag is left as it is by normalizeETag, does
\* not start with W/ and neither starts nor ends with a double quote.
C40_NormalizeIdempotent ==
  fn.op = "normalizeETag"
    => /\ normalizeETag(fn.out) = fn.out
       /\ ~HasPrefix(fn.out, WeakPrefix)
       /\ fn.out # <<>> => Head(fn.out) # Quote /\ fn.out[Len(fn.out)] # Quote

====
